---------------------------- MODULE Spec2Model ----------------------------
(***************************************************************************)
(* The credential vault of zoho-cred-manager.py: CredentialManager and the *)
(* two module-level flows setup_credentials and get_zoho_credentials.      *)
(*                                                                         *)
(* State is what outlives a call: the keyring entry, the config directory, *)
(* the salt file and the config.enc file.  Every method is one action; a   *)
(* method's body is an operator from the vault state to an Outcome (the    *)
(* state it leaves, the exception it raises or "none", the value it        *)
(* returns), so that a method calling another composes the two operators   *)
(* exactly as the code does.                                               *)
(*                                                                         *)
(* Library behaviour the code relies on:                                   *)
(*  - PBKDF2HMAC is idealised as injective in (password, salt).            *)
(*  - keyring.get_password returns None for an absent entry;               *)
(*    keyring.delete_password raises PasswordDeleteError for one.          *)
(*  - Fernet.decrypt base64-decodes the token leniently                    *)
(*    (base64.urlsafe_b64decode), then verifies the HMAC over the DECODED  *)
(*    bytes; every failure is InvalidToken.                                *)
(*  - os.urandom(16) is idealised as fresh: a salt it returns is one the    *)
(*    vault holds nowhere at the time of the draw.                         *)
(* The return annotation of _generate_key names Tuple, which the file does *)
(* not import; the model is of the method bodies as they are written.      *)
(***************************************************************************)
EXTENDS Integers, Sequences, FiniteSets, TLC

VARIABLES keyring, config_dir, salt_file, config_file, last, procs

vars == <<keyring, config_dir, salt_file, config_file, last, procs>>

(***************************************************************************)
(* Bounds of the model.                                                    *)
(***************************************************************************)
MaxVals == 2
MaxSalts == 2

ValPool == <<"A1", "B22", "C333", "D4444">>
Vals == {ValPool[i] : i \in 1..MaxVals}
Salts == 1..MaxSalts
Passphrases == {"hunter2", "tr0ub4dor"}

(***************************************************************************)
(* Python values.  An optional value (None or a value) is <<>> or <<v>>.   *)
(* A dict is the sequence of its <<key, value>> items in insertion order,  *)
(* keys unique.                                                            *)
(***************************************************************************)
None == <<>>
Some(v) == <<v>>

Range(s) == {s[i] : i \in DOMAIN s}
Keys(d) == {d[i][1] : i \in DOMAIN d}
KeyIndex(d, k) == CHOOSE i \in DOMAIN d : d[i][1] = k
Get(d, k) == d[KeyIndex(d, k)][2]

\* d[k] = v
DictSet(d, k, v) ==
    IF k \in Keys(d)
    THEN [d EXCEPT ![KeyIndex(d, k)] = <<k, v>>]
    ELSE Append(d, <<k, v>>)

\* d.setdefault(k, v) for each item of new: a key d has keeps d's value
RECURSIVE SetDefaultFrom(_, _, _)
SetDefaultFrom(d, new, i) ==
    IF i > Len(new) THEN d
    ELSE SetDefaultFrom(IF new[i][1] \in Keys(d) THEN d ELSE Append(d, new[i]),
                        new, i + 1)

dict_update_keeping(d, new) == SetDefaultFrom(d, new, 1)

\* d.update(new): the items of new from the i-th on, set in d in their order
RECURSIVE UpdateFrom(_, _, _)
UpdateFrom(d, new, i) ==
    IF i > Len(new) THEN d
    ELSE UpdateFrom(DictSet(d, new[i][1], new[i][2]), new, i + 1)

dict_update(d, new) == UpdateFrom(d, new, 1)


(***************************************************************************)
(* json.dumps / json.loads on a dict of strings.  The text is the sequence *)
(* of its tokens: punctuation, and string literals (the content between    *)
(* the quotes).  json.dumps writes the items in insertion order, separated *)
(* by ", " and ": "; json.loads reads them back, a repeated key keeping    *)
(* its last value.                                                         *)
(***************************************************************************)
Punct(s) == [t |-> "punct", s |-> s]
Str(s) == [t |-> "str", s |-> s]

\* the text of the items of d from the i-th on
RECURSIVE DumpItems(_, _)
DumpItems(d, i) ==
    IF i > Len(d) THEN <<>>
    ELSE <<Str(d[i][1]), Punct(": "), Str(d[i][2])>>
         \o (IF i = Len(d) THEN <<>> ELSE <<Punct(", ")>>)
         \o DumpItems(d, i + 1)

json_dumps(d) == <<Punct("{")>> \o DumpItems(d, 1) \o <<Punct("}")>>

\* items of a token sequence from position i on, added to the dict acc
RECURSIVE LoadItems(_, _, _)
LoadItems(text, i, acc) ==
    IF text[i] = Punct("}") THEN acc
    ELSE IF text[i] = Punct(", ") THEN LoadItems(text, i + 1, acc)
    ELSE LoadItems(text, i + 3, DictSet(acc, text[i].s, text[i + 2].s))

json_loads(text) == LoadItems(text, 2, <<>>)

\* a string literal is its content and two quotes
TokLen(tok) == IF tok.t = "str" THEN Len(tok.s) + 2 ELSE Len(tok.s)

\* len(text.encode()): the fields are ASCII, one byte a character
RECURSIVE ByteLenFrom(_, _)
ByteLenFrom(text, i) ==
    IF i > Len(text) THEN 0 ELSE TokLen(text[i]) + ByteLenFrom(text, i + 1)

ByteLen(text) == ByteLenFrom(text, 1)

(***************************************************************************)
(* Key derivation (_generate_key) and the text form kept in the keyring.   *)
(* PBKDF2HMAC(SHA256, 32 bytes, salt, 480000).derive(password) is the pair *)
(* it was derived from; b64encode wraps the raw bytes, key.decode() /      *)
(* key.encode() pass between bytes and str.                                *)
(***************************************************************************)
kdf_derive(password, salt) == [pw |-> password, salt |-> salt]
b64encode(raw) == [b64 |-> raw]
urlsafe_b64decode(b) == b.b64
decode(bytes) == [str |-> bytes]
encode(str) == str.str

\* _generate_key that derives from the password alone
generate_key_unsalted(password, salt) ==
    [key |-> b64encode(kdf_derive(password, 0)), salt |-> salt]

\* _generate_key(password, salt): salt is the os.urandom(16) draw when the
\* caller passes none
generate_key(password, salt) ==
    [key |-> b64encode(kdf_derive(password, salt)), salt |-> salt]

(***************************************************************************)
(* Fernet.  A token is base64url(0x80 | time | iv | AES-CBC | HMAC); its   *)
(* decoded length is 57 bytes and the PKCS7-padded ciphertext.  The model  *)
(* keeps what the token was made from and how the file's text now relates  *)
(* to what encrypt wrote:                                                  *)
(*   "written"  as encrypt wrote it                                        *)
(*   "altered"  one character changed, the decoded bytes differ            *)
(*   "invalid"  one character changed, the text no longer decodes          *)
(*   "slack"    the last data character changed in its unused low bits,    *)
(*              which the lenient decoder drops: the decoded bytes are the *)
(*              same.  There are such bits when the decoded length is not  *)
(*              a multiple of 3.                                           *)
(* The random iv and the time stamp of a token are left out: no operation  *)
(* reads them.                                                             *)
(***************************************************************************)
FernetOverhead == 57
AesBlock == 16
B64Group == 3

Fernet(key) == [raw |-> urlsafe_b64decode(key)]

TokenBytes(data) == FernetOverhead + AesBlock * ((ByteLen(data) \div AesBlock) + 1)

encrypt(f, data) ==
    [key |-> f.raw, pt |-> data, size |-> TokenBytes(data), text |-> "written"]

\* the decoded bytes are the ones encrypt produced
DecodesAsWritten(tok) == tok.text \in {"written", "slack"}

\* Fernet.decrypt: the plaintext, or InvalidToken
DecryptOk(f, tok) == DecodesAsWritten(tok) /\ tok.key = f.raw

\* the last base64 character carries unused bits
HasSlack(tok) == tok.size % B64Group # 0

(***************************************************************************)
(* Exceptions, by their Python class, and the spec's names for them.       *)
(***************************************************************************)
NoExc == "none"
FileNotFoundError == "FileNotFoundError"
ValueError == "ValueError"
InvalidToken == "InvalidToken"
PasswordDeleteError == "PasswordDeleteError"

VaultFileMissing == FileNotFoundError
KeyNotFound == ValueError
DecryptionFailed == InvalidToken

(***************************************************************************)
(* The vault state as a value, and what a call leaves behind.              *)
(***************************************************************************)
Vault ==
    [keyring |-> keyring, config_dir |-> config_dir,
     salt_file |-> salt_file, config_file |-> config_file]

Outcome(st, exc, ret) == [st |-> st, exc |-> exc, ret |-> ret]

(***************************************************************************)
(* CredentialManager                                                       *)
(***************************************************************************)
\* _create_config_dir: mkdir(parents=True, exist_ok=True)
create_config_dir(st) == [st EXCEPT !.config_dir = TRUE]

\* _get_encryption_key that makes up a key when the keyring has none
get_encryption_key_fallback(st) ==
    IF st.keyring = None
    THEN Outcome(st, NoExc, Some(b64encode(kdf_derive("", 0))))
    ELSE Outcome(st, NoExc, Some(encode(st.keyring[1])))

\* _get_encryption_key
get_encryption_key(st) ==
    IF st.keyring = None
    THEN Outcome(st, ValueError, None)
    ELSE Outcome(st, NoExc, Some(encode(st.keyring[1])))

\* initialize_credentials that derives from the salt file when there is one
initialize_credentials_reusing(st, password, typed, salt) ==
    LET st1 == create_config_dir(st)
        pw == IF password = None THEN typed[1] ELSE password[1]
        g == generate_key(pw, IF st.salt_file = None THEN salt
                              ELSE st.salt_file[1])
    IN  IF password = None /\ typed[1] # typed[2]
        THEN Outcome(st1, ValueError, None)
        ELSE Outcome([st1 EXCEPT !.salt_file = Some(g.salt),
                                 !.keyring = Some(decode(g.key))],
                     NoExc, None)

\* initialize_credentials that leaves a salt file that is there as it is
initialize_credentials_keepfile(st, password, typed, salt) ==
    LET st1 == create_config_dir(st)
        pw == IF password = None THEN typed[1] ELSE password[1]
        g == generate_key(pw, salt)
    IN  IF password = None /\ typed[1] # typed[2]
        THEN Outcome(st1, ValueError, None)
        ELSE Outcome([st1 EXCEPT !.salt_file = IF st.salt_file = None
                                               THEN Some(g.salt)
                                               ELSE st.salt_file,
                                 !.keyring = Some(decode(g.key))],
                     NoExc, None)

\* initialize_credentials(password): password is None or Some(p); typed is
\* what the two getpass prompts are answered with when password is None;
\* salt is the os.urandom draw of _generate_key
initialize_credentials(st, password, typed, salt) ==
    LET st1 == create_config_dir(st)
        pw == IF password = None THEN typed[1] ELSE password[1]
        g == generate_key(pw, salt)
    IN  IF password = None /\ typed[1] # typed[2]
        THEN Outcome(st1, ValueError, None)
        ELSE Outcome([st1 EXCEPT !.salt_file = Some(g.salt),
                                 !.keyring = Some(decode(g.key))],
                     NoExc, None)

\* store_credentials that writes the JSON text itself when it finds no key
store_credentials_plain(st, credentials) ==
    LET k == get_encryption_key(st)
        data == json_dumps(credentials)
    IN  IF k.exc # NoExc
        THEN Outcome([st EXCEPT !.config_file =
                          Some([key |-> kdf_derive("", 0), pt |-> data,
                                size |-> ByteLen(data), text |-> "plain"])],
                     k.exc, None)
        ELSE IF ~st.config_dir THEN Outcome(st, FileNotFoundError, None)
        ELSE Outcome([st EXCEPT !.config_file =
                          Some(encrypt(Fernet(k.ret[1]), data))],
                     NoExc, None)

\* store_credentials that leaves a file that is there as it is
store_credentials_exclusive(st, credentials) ==
    LET k == get_encryption_key(st)
    IN  IF k.exc # NoExc THEN Outcome(st, k.exc, None)
        ELSE IF ~st.config_dir THEN Outcome(st, FileNotFoundError, None)
        ELSE IF st.config_file # None THEN Outcome(st, NoExc, None)
        ELSE Outcome([st EXCEPT !.config_file =
                          Some(encrypt(Fernet(k.ret[1]), json_dumps(credentials)))],
                     NoExc, None)

\* store_credentials(credentials); open(config_file, 'wb') needs the directory
store_credentials(st, credentials) ==
    LET k == get_encryption_key(st)
    IN  IF k.exc # NoExc THEN Outcome(st, k.exc, None)
        ELSE IF ~st.config_dir THEN Outcome(st, FileNotFoundError, None)
        ELSE Outcome([st EXCEPT !.config_file =
                          Some(encrypt(Fernet(k.ret[1]), json_dumps(credentials)))],
                     NoExc, None)

\* load_credentials that answers a token it cannot decrypt with an empty dict
load_credentials_lenient(st) ==
    IF st.config_file = None THEN Outcome(st, FileNotFoundError, None)
    ELSE LET k == get_encryption_key(st)
         IN  IF k.exc # NoExc THEN Outcome(st, k.exc, None)
             ELSE IF ~DecryptOk(Fernet(k.ret[1]), st.config_file[1])
             THEN Outcome(st, NoExc, Some(<<>>))
             ELSE Outcome(st, NoExc, Some(json_loads(st.config_file[1].pt)))

\* load_credentials that takes the plaintext of a token without verifying it
load_credentials_unverified(st) ==
    IF st.config_file = None THEN Outcome(st, FileNotFoundError, None)
    ELSE LET k == get_encryption_key(st)
         IN  IF k.exc # NoExc THEN Outcome(st, k.exc, None)
             ELSE IF st.config_file[1].text = "invalid"
             THEN Outcome(st, InvalidToken, None)
             ELSE Outcome(st, NoExc, Some(json_loads(st.config_file[1].pt)))

\* load_credentials that fetches the key before it looks for the file
load_credentials_keyfirst(st) ==
    LET k == get_encryption_key(st)
    IN  IF k.exc # NoExc THEN Outcome(st, k.exc, None)
        ELSE IF st.config_file = None THEN Outcome(st, FileNotFoundError, None)
        ELSE IF ~DecryptOk(Fernet(k.ret[1]), st.config_file[1])
        THEN Outcome(st, InvalidToken, None)
        ELSE Outcome(st, NoExc, Some(json_loads(st.config_file[1].pt)))

\* load_credentials that unlinks a config.enc it cannot decrypt
load_credentials_cleaning(st) ==
    IF st.config_file = None THEN Outcome(st, FileNotFoundError, None)
    ELSE LET k == get_encryption_key(st)
         IN  IF k.exc # NoExc THEN Outcome(st, k.exc, None)
             ELSE IF ~DecryptOk(Fernet(k.ret[1]), st.config_file[1])
             THEN Outcome([st EXCEPT !.config_file = None], InvalidToken, None)
             ELSE Outcome(st, NoExc, Some(json_loads(st.config_file[1].pt)))

\* load_credentials()
load_credentials(st) ==
    IF st.config_file = None THEN Outcome(st, FileNotFoundError, None)
    ELSE LET k == get_encryption_key(st)
         IN  IF k.exc # NoExc THEN Outcome(st, k.exc, None)
             ELSE IF ~DecryptOk(Fernet(k.ret[1]), st.config_file[1])
             THEN Outcome(st, InvalidToken, None)
             ELSE Outcome(st, NoExc, Some(json_loads(st.config_file[1].pt)))

\* update_credentials without the except FileNotFoundError clause
update_credentials_strict(st, new_credentials) ==
    LET l == load_credentials(st)
    IN  IF l.exc # NoExc THEN Outcome(l.st, l.exc, None)
        ELSE LET s == store_credentials(l.st,
                                        dict_update(l.ret[1], new_credentials))
             IN  Outcome(s.st, s.exc, None)

\* update_credentials that stores new_credentials alone after any failure
update_credentials_anyerror(st, new_credentials) ==
    LET l == load_credentials(st)
        body == IF l.exc # NoExc THEN l
                ELSE store_credentials(l.st,
                                       dict_update(l.ret[1], new_credentials))
    IN  IF body.exc # NoExc
        THEN store_credentials(body.st, new_credentials)
        ELSE Outcome(body.st, body.exc, None)

\* update_credentials(new_credentials): the try block is load, update, store;
\* a FileNotFoundError out of it stores new_credentials alone
update_credentials(st, new_credentials) ==
    LET l == load_credentials(st)
        body == IF l.exc # NoExc THEN l
                ELSE store_credentials(l.st,
                                       dict_update(l.ret[1], new_credentials))
    IN  IF body.exc = FileNotFoundError
        THEN store_credentials(body.st, new_credentials)
        ELSE Outcome(body.st, body.exc, None)

\* delete_credentials that removes the keyring entry before the files
delete_credentials_keyfirst(st) ==
    IF st.keyring = None
    THEN Outcome(st, PasswordDeleteError, None)
    ELSE Outcome([st EXCEPT !.keyring = None, !.config_file = None,
                            !.salt_file = None],
                 NoExc, None)

\* delete_credentials that leaves the salt file
delete_credentials_keepsalt(st) ==
    LET st1 == [st EXCEPT !.config_file = None]
    IN  IF st1.keyring = None
        THEN Outcome(st1, PasswordDeleteError, None)
        ELSE Outcome([st1 EXCEPT !.keyring = None], NoExc, None)

\* delete_credentials(): unlink both files when they exist, then
\* keyring.delete_password, which raises for an absent entry
delete_credentials(st) ==
    LET st1 == [st EXCEPT !.config_file = None]
        st2 == [st1 EXCEPT !.salt_file = None]
    IN  IF st2.keyring = None
        THEN Outcome(st2, PasswordDeleteError, None)
        ELSE Outcome([st2 EXCEPT !.keyring = None], NoExc, None)

(***************************************************************************)
(* setup_credentials and get_zoho_credentials.  The answers typed at the   *)
(* prompts are the record inp: password, confirm, the four required fields *)
(* and default_customer ("" when skipped).                                 *)
(***************************************************************************)
RequiredFields == <<"organization_id", "client_id", "client_secret", "refresh_token">>

FormCredentials(inp) ==
    LET credentials == [i \in DOMAIN RequiredFields |->
                            <<RequiredFields[i], inp.fields[i]>>]
    IN  IF inp.default_customer # ""
        THEN DictSet(credentials, "default_customer_id", inp.default_customer)
        ELSE credentials

\* setup_credentials that stores without initializing first
setup_credentials_noinit(st, inp, salt) ==
    IF inp.password # inp.confirm THEN Outcome(st, NoExc, None)
    ELSE LET credentials == FormCredentials(inp)
             s == store_credentials(st, credentials)
         IN  IF s.exc # NoExc THEN s
             ELSE Outcome(s.st, NoExc, Some(credentials))

\* setup_credentials that initializes before it compares the passwords
setup_credentials_initfirst(st, inp, salt) ==
    LET i == initialize_credentials(st, Some(inp.password), <<>>, salt)
        credentials == FormCredentials(inp)
        s == store_credentials(i.st, credentials)
    IN  IF i.exc # NoExc THEN i
        ELSE IF inp.password # inp.confirm THEN Outcome(i.st, NoExc, None)
        ELSE IF s.exc # NoExc THEN s
        ELSE Outcome(s.st, NoExc, Some(credentials))

setup_credentials(st, inp, salt) ==
    IF inp.password # inp.confirm THEN Outcome(st, NoExc, None)
    ELSE LET i == initialize_credentials(st, Some(inp.password), <<>>, salt)
             credentials == FormCredentials(inp)
             s == store_credentials(i.st, credentials)
         IN  IF i.exc # NoExc THEN i
             ELSE IF s.exc # NoExc THEN s
             ELSE Outcome(s.st, NoExc, Some(credentials))

\* get_zoho_credentials that runs the setup on any failure of load
get_zoho_credentials_anyfailure(st, inp, salt) ==
    LET l == load_credentials(st)
    IN  IF l.exc # NoExc
        THEN setup_credentials(l.st, inp, salt)
        ELSE l

get_zoho_credentials(st, inp, salt) ==
    LET l == load_credentials(st)
    IN  IF l.exc = FileNotFoundError
        THEN setup_credentials(l.st, inp, salt)
        ELSE l

(***************************************************************************)
(* zoho-config-commands.py, run as `config setup | update | delete`.  It   *)
(* imports CredentialManager from a module credential_manager, taken here  *)
(* to be the class above.  args gives each flag of `config update` None    *)
(* when it was not on the command line and Some(text) when it was; confirm *)
(* is the answer typed at the prompt of `config delete`.  What a run       *)
(* returns here is the calls it made on cred_manager that exist, in order. *)
(***************************************************************************)
AttributeError == "AttributeError"

UpdateFlags ==
    <<"organization_id", "client_id", "client_secret", "refresh_token",
      "default_customer_id">>

\* `if args.x:` is false for None and for the empty string
Truthy(v) == v # None /\ v[1] # ""

\* new_creds after the ifs for the flags from the i-th on
RECURSIVE NewCreds(_, _)
NewCreds(args, i) ==
    IF i > Len(UpdateFlags) THEN <<>>
    ELSE (IF Truthy(args[UpdateFlags[i]])
          THEN << <<UpdateFlags[i], args[UpdateFlags[i]][1]>> >>
          ELSE <<>>)
         \o NewCreds(args, i + 1)

\* str.lower() on the answers that are typed
lower(s) ==
    CASE s = "YES" -> "yes"
      [] s = "Yes" -> "yes"
      [] s = "yeS" -> "yes"
      [] s = "NO" -> "no"
      [] OTHER -> s

\* the update branch that calls update_credentials with an empty dict too
config_update_always(st, args) ==
    LET new_creds == NewCreds(args, 1)
        u == update_credentials(st, new_creds)
    IN  Outcome(u.st, u.exc, Some(<< <<"update_credentials", new_creds>> >>))

\* the update branch
config_update(st, args) ==
    LET new_creds == NewCreds(args, 1)
        u == update_credentials(st, new_creds)
    IN  IF new_creds # <<>>
        THEN Outcome(u.st, u.exc, Some(<< <<"update_credentials", new_creds>> >>))
        ELSE Outcome(st, NoExc, Some(<<>>))

\* the delete branch that takes any answer beginning with a y
config_delete_lax(st, confirm) ==
    LET d == delete_credentials(st)
    IN  IF lower(confirm) \in {"yes", "y"}
        THEN Outcome(d.st, d.exc, Some(<< <<"delete_credentials", <<>>>> >>))
        ELSE Outcome(st, NoExc, Some(<<>>))

\* the delete branch
config_delete(st, confirm) ==
    LET d == delete_credentials(st)
    IN  IF lower(confirm) = "yes"
        THEN Outcome(d.st, d.exc, Some(<< <<"delete_credentials", <<>>>> >>))
        ELSE Outcome(st, NoExc, Some(<<>>))

\* the setup branch: CredentialManager has no method setup_credentials
config_setup(st) == Outcome(st, AttributeError, Some(<<>>))

\* the script: the branch of the command and then, when that returned, the
\* try block at the end, where cred_manager.get_zoho_credentials is no
\* method of CredentialManager either
main(st, config_command, args, confirm) ==
    LET branch == CASE config_command = "setup" -> config_setup(st)
                    [] config_command = "update" -> config_update(st, args)
                    [] config_command = "delete" -> config_delete(st, confirm)
    IN  IF branch.exc # NoExc THEN branch
        ELSE Outcome(branch.st, AttributeError, branch.ret)

(***************************************************************************)
(* The states of section 4.4, and the two a vault can be in besides them.  *)
(***************************************************************************)
StateClass(st) ==
    IF st.keyring = None
    THEN (IF st.config_file = None THEN "Uninitialized" ELSE "KeyMissing")
    ELSE IF st.config_file = None THEN "Initialized"
    ELSE IF load_credentials(st).exc = NoExc THEN "Populated"
    ELSE "Undecryptable"

(***************************************************************************)
(* Inputs.  A caller's dict has any of ArgFields, in that order; the last  *)
(* one is outside the known set.                                           *)
(***************************************************************************)
ArgFields == <<"refresh_token", "api_domain">>

RECURSIVE MkDict(_, _, _)
MkDict(fields, f, i) ==
    IF i > Len(fields) THEN <<>>
    ELSE (IF fields[i] \in DOMAIN f THEN << <<fields[i], f[fields[i]]>> >> ELSE <<>>)
         \o MkDict(fields, f, i + 1)

ArgDicts ==
    {MkDict(ArgFields, f, 1) :
        f \in UNION {[S -> Vals] : S \in SUBSET Range(ArgFields)}}

\* the four required answers: the values in turn, from the k-th on
FormAnswers ==
    {[i \in DOMAIN RequiredFields |-> ValPool[((i + k) % MaxVals) + 1]] :
        k \in 1..MaxVals}

Prompts ==
    {inp \in [password : Passphrases, confirm : Passphrases,
              fields : FormAnswers, default_customer : {"", ValPool[1]}] :
        inp.password # inp.confirm =>
            /\ inp.fields[1] = ValPool[1]
            /\ inp.default_customer = ""}

\* the command line of `config update`: any of the flags of FlagsGiven, each
\* with an empty text or a value, refresh_token with any value
FlagsGiven == {"client_id", "refresh_token", "default_customer_id"}

FlagTexts(flag) ==
    {None, Some("")}
    \cup {Some(v) : v \in IF flag = "refresh_token" THEN Vals ELSE {ValPool[1]}}

NoArgs == [flag \in Range(UpdateFlags) |-> None]

CliArgs ==
    {[flag \in Range(UpdateFlags) |->
          IF flag \in FlagsGiven THEN given[flag] ELSE None] :
        given \in {g \in [FlagsGiven -> {None, Some("")} \cup {Some(v) : v \in Vals}] :
                      \A flag \in FlagsGiven : g[flag] \in FlagTexts(flag)}}

\* what is typed at the prompt of `config delete`
Answers == {"yes", "YES", "Yes", "yeS", "no", "NO", "y", " yes", ""}

\* the salts the vault holds somewhere: in the salt file, in the key of the
\* keyring entry, in the key config.enc was written under
InUse(st) ==
    (IF st.salt_file = None THEN {} ELSE {st.salt_file[1]})
    \cup (IF st.keyring = None THEN {}
          ELSE {urlsafe_b64decode(encode(st.keyring[1])).salt})
    \cup (IF st.config_file = None THEN {} ELSE {st.config_file[1].key.salt})

\* os.urandom(16), as _generate_key calls it: any salt not held yet
urandom(st) == Salts \ InUse(st)

\* no salt is drawn when the passwords differ
Draws(inp) ==
    IF inp.password = inp.confirm THEN urandom(Vault)
    ELSE {CHOOSE x \in Salts : TRUE}

(***************************************************************************)
(* Two processes on one vault.  A process is idle or inside a store or an  *)
(* update, at the point pc names, with the dict it is to write (or, before *)
(* its load, to merge) in data.  What touches the file is a step of its    *)
(* own: open(config_file, 'wb') leaves the file empty; f.write and the     *)
(* close put the token at the start of what the file then holds, through a *)
(* file position of the process's own.                                     *)
(***************************************************************************)
Procs == {"p1", "p2"}

Idle == [pc |-> "idle", data |-> <<>>]

\* config.enc right after open(..., 'wb')
EmptyFile == [key |-> kdf_derive("", 0), pt |-> <<>>, size |-> 0, text |-> "empty"]

\* f.write(encrypted_data) from position 0 on a file holding content: the
\* token alone, or the token and after it the rest of a longer content
write_from_start(content, tok) ==
    IF content.size <= tok.size THEN tok
    ELSE [tok EXCEPT !.size = content.size, !.text = "mixed"]

(***************************************************************************)
(* The state machine.  last records the call that was made last: which,    *)
(* what it raised, what it returned, the class of the state it was made    *)
(* in and, when it returned, the dict (for initialize: the passphrase) it  *)
(* was given.                                                              *)
(***************************************************************************)
Init ==
    /\ keyring = None
    /\ config_dir = FALSE
    /\ salt_file = None
    /\ config_file = None
    /\ last = [op |-> "start", arg |-> <<>>, exc |-> NoExc, ret |-> None,
               pre |-> "Uninitialized"]
    /\ procs = [p \in Procs |-> Idle]

Call(op, arg, outcome) ==
    \E o \in {outcome} :
        /\ keyring' = o.st.keyring
        /\ config_dir' = o.st.config_dir
        /\ salt_file' = o.st.salt_file
        /\ config_file' = o.st.config_file
        /\ last' = [op |-> op, arg |-> IF o.exc = NoExc THEN arg ELSE <<>>,
                    exc |-> o.exc, ret |-> o.ret, pre |-> StateClass(Vault)]
        /\ UNCHANGED procs

Initialize ==
    \E p \in Passphrases, salt \in urandom(Vault) :
        Call("initialize", p, initialize_credentials(Vault, Some(p), <<>>, salt))

InitializePrompted ==
    \E typed \in Passphrases \X Passphrases :
        \E salt \in Draws([password |-> typed[1], confirm |-> typed[2]]) :
            Call("initialize", typed[1],
                 initialize_credentials(Vault, None, typed, salt))

Store ==
    \E credentials \in ArgDicts :
        Call("store", credentials, store_credentials(Vault, credentials))

Load == Call("load", <<>>, load_credentials(Vault))

Update ==
    \E new_credentials \in ArgDicts :
        Call("update", new_credentials, update_credentials(Vault, new_credentials))

Delete == Call("delete", <<>>, delete_credentials(Vault))

Setup ==
    \E inp \in Prompts : \E salt \in Draws(inp) :
        Call("setup", FormCredentials(inp), setup_credentials(Vault, inp, salt))

\* the prompts are answered only when setup_credentials runs
GetZohoCredentials ==
    IF load_credentials(Vault).exc = FileNotFoundError
    THEN \E inp \in Prompts : \E salt \in Draws(inp) :
            Call("get_zoho_credentials", FormCredentials(inp),
                 get_zoho_credentials(Vault, inp, salt))
    ELSE Call("get_zoho_credentials", <<>>,
              get_zoho_credentials(Vault, CHOOSE inp \in Prompts : TRUE,
                                   CHOOSE salt \in Salts : TRUE))

(***************************************************************************)
(* What happens to the vault from outside the program: the keyring entry   *)
(* is replaced by a key derived from another passphrase, or removed; one   *)
(* byte of config.enc, as store wrote it, is changed.                      *)
(***************************************************************************)
Env(op) ==
    /\ last' = [op |-> op, arg |-> <<>>, exc |-> NoExc, ret |-> None,
                pre |-> StateClass(Vault)]
    /\ UNCHANGED procs

EnvReplaceKey ==
    /\ keyring # None
    /\ salt_file # None
    /\ \E p \in Passphrases :
        /\ p # urlsafe_b64decode(encode(keyring[1])).pw
        /\ keyring' = Some(decode(generate_key(p, salt_file[1]).key))
    /\ UNCHANGED <<config_dir, salt_file, config_file>>
    /\ Env("env_replace_key")

EnvRemoveKey ==
    /\ keyring # None
    /\ keyring' = None
    /\ UNCHANGED <<config_dir, salt_file, config_file>>
    /\ Env("env_remove_key")

EnvChangeByte ==
    /\ config_file # None
    /\ config_file[1].text = "written"
    /\ \E how \in {"altered", "invalid", "slack"} :
        /\ how = "slack" => HasSlack(config_file[1])
        /\ config_file' = Some([config_file[1] EXCEPT !.text = how])
    /\ UNCHANGED <<keyring, config_dir, salt_file>>
    /\ Env("env_change_byte")

\* the methods of CredentialManager, called in any order with any dict
Next ==
    \/ Initialize
    \/ InitializePrompted
    \/ Store
    \/ Load
    \/ Update
    \/ Delete
    \/ EnvReplaceKey
    \/ EnvRemoveKey
    \/ EnvChangeByte

Spec == Init /\ [][Next]_vars

\* the two flows, with the methods that change what they find
NextFlows ==
    \/ Setup
    \/ GetZohoCredentials
    \/ Initialize
    \/ InitializePrompted
    \/ Load
    \/ Delete
    \/ EnvReplaceKey
    \/ EnvRemoveKey
    \/ EnvChangeByte

SpecFlows == Init /\ [][NextFlows]_vars

\* the methods alone: nothing touches the vault from outside
NextCalls ==
    \/ Initialize
    \/ InitializePrompted
    \/ Store
    \/ Load
    \/ Update
    \/ Delete

SpecCalls == Init /\ [][NextCalls]_vars

\* the command line, run any number of times on a vault that initialize has
\* made
CliSetup == Call("config_setup", <<>>, main(Vault, "setup", NoArgs, ""))

CliUpdate ==
    \E args \in CliArgs :
        Call("config_update", <<>>, main(Vault, "update", args, ""))

CliDelete ==
    \E confirm \in Answers :
        Call("config_delete", <<>>, main(Vault, "delete", NoArgs, confirm))

NextCli ==
    \/ Initialize
    \/ CliSetup
    \/ CliUpdate
    \/ CliDelete

SpecCli == Init /\ [][NextCli]_vars

(***************************************************************************)
(* Two processes calling store and update on an initialized vault, their   *)
(* steps in any order.  The keyring entry does not change while they run,  *)
(* so the token a process writes is computed where it is written.  last    *)
(* records the write made last and the dict it wrote.                      *)
(***************************************************************************)
Stay(p, pc, data) ==
    /\ procs' = [procs EXCEPT ![p] = [pc |-> pc, data |-> data]]
    /\ UNCHANGED <<keyring, config_dir, salt_file>>

\* initialize, once, before any process starts
ConcInitialize == keyring = None /\ Initialize

\* store_credentials(C) is called: the key is fetched, C encrypted
StoreBegin(p) ==
    /\ procs[p].pc = "idle"
    /\ keyring # None
    /\ \E credentials \in ArgDicts : Stay(p, "open", credentials)
    /\ UNCHANGED <<config_file, last>>

\* update_credentials(D) is called: load_credentials looks for the file
UpdateBegin(p) ==
    /\ procs[p].pc = "idle"
    /\ keyring # None
    /\ \E new_credentials \in ArgDicts :
          Stay(p, IF config_file = None THEN "open" ELSE "read", new_credentials)
    /\ UNCHANGED <<config_file, last>>

\* load_credentials reads and decrypts; update merges, or raises
UpdateRead(p) ==
    /\ procs[p].pc = "read"
    /\ LET l == load_credentials(Vault)
       IN  IF l.exc = NoExc
           THEN Stay(p, "open", dict_update(l.ret[1], procs[p].data))
           ELSE Stay(p, "idle", <<>>)
    /\ UNCHANGED <<config_file, last>>

\* with open(self.config_file, 'wb') as f
FileOpen(p) ==
    /\ procs[p].pc = "open"
    /\ config_file' = Some(EmptyFile)
    /\ Stay(p, "write", procs[p].data)
    /\ UNCHANGED last

\* f.write(encrypted_data), the file is closed, the call returns
FileWrite(p) ==
    /\ procs[p].pc = "write"
    /\ config_file' =
          Some(write_from_start(config_file[1],
                                encrypt(Fernet(get_encryption_key(Vault).ret[1]),
                                        json_dumps(procs[p].data))))
    /\ Stay(p, "idle", <<>>)
    /\ last' = [op |-> "write", arg |-> procs[p].data, exc |-> NoExc,
                ret |-> None, pre |-> StateClass(Vault)]

NextConc ==
    \/ ConcInitialize
    \/ \E p \in Procs : StoreBegin(p)
    \/ \E p \in Procs : UpdateBegin(p)
    \/ \E p \in Procs : UpdateRead(p)
    \/ \E p \in Procs : FileOpen(p)
    \/ \E p \in Procs : FileWrite(p)

SpecConc == Init /\ [][NextConc]_vars

(***************************************************************************)
(* Properties.  A dict as the map it stands for, and the map an update of  *)
(* C by D is to give.                                                      *)
(***************************************************************************)
AsMap(d) == [k \in Keys(d) |-> Get(d, k)]

MergeMap(C, D) ==
    [k \in Keys(C) \cup Keys(D) |-> IF k \in Keys(D) THEN Get(D, k) ELSE Get(C, k)]

\* the passphrase a keyring entry was derived from
EntryPassphrase(entry) == urlsafe_b64decode(encode(entry)).pw

\* C1: whenever the keyring holds a key, store(C) followed at once by load()
\* returns exactly C, for every C and whatever config.enc held before; and a
\* store that has just returned is followed by such a load.
C1_StoreLoadRoundTrip ==
    /\ keyring # None =>
          \A C \in ArgDicts :
              LET s == store_credentials(Vault, C)
                  l == load_credentials(s.st)
              IN  /\ s.exc = NoExc
                  /\ l.exc = NoExc
                  /\ l.ret # None
                  /\ AsMap(l.ret[1]) = AsMap(C)
    /\ (last.op = "store" /\ last.exc = NoExc) =>
          LET l == load_credentials(Vault)
          IN  /\ l.exc = NoExc
              /\ l.ret # None
              /\ AsMap(l.ret[1]) = AsMap(last.arg)

\* a store of a one-field dict has just replaced a blob that was loadable
C1_Witness ==
    /\ last.op = "store"
    /\ last.exc = NoExc
    /\ last.pre = "Populated"
    /\ Len(last.arg) = 1
    /\ load_credentials(Vault).ret = Some(last.arg)

\* C2: on a vault whose load() returns C, update(D) followed by load() returns
\* D's value for every key of D, C's value for every other key of C, and no
\* other key, for every D; a field outside the known set is kept as it was.
C2_UpdateMerge ==
    LET l == load_credentials(Vault)
    IN  /\ l.exc = NoExc =>
              \A D \in ArgDicts :
                  LET u == update_credentials(Vault, D)
                      after == load_credentials(u.st)
                  IN  /\ u.exc = NoExc
                      /\ after.exc = NoExc
                      /\ after.ret # None
                      /\ AsMap(after.ret[1]) = MergeMap(l.ret[1], D)
        /\ (last.op = "update" /\ last.pre = "Populated") =>
              /\ last.exc = NoExc
              /\ l.exc = NoExc
              /\ Keys(last.arg) \subseteq Keys(l.ret[1])
              /\ \A k \in Keys(last.arg) : Get(l.ret[1], k) = Get(last.arg, k)

\* an update of refresh_token alone has run on a loadable vault, and the
\* vault still has its api_domain, a field outside the known set
C2_Witness ==
    /\ last.op = "update"
    /\ last.exc = NoExc
    /\ last.pre = "Populated"
    /\ Keys(last.arg) = {"refresh_token"}
    /\ load_credentials(Vault).exc = NoExc
    /\ Keys(load_credentials(Vault).ret[1]) = {"refresh_token", "api_domain"}
    /\ Get(load_credentials(Vault).ret[1], "api_domain")
         # Get(load_credentials(Vault).ret[1], "refresh_token")

\* C3: when the keyring entry is a key derived from another passphrase than
\* the one config.enc was written under, load() raises InvalidToken
\* (DecryptionFailed) and returns nothing.
C3_WrongKeyFails ==
    (/\ keyring # None
     /\ config_file # None
     /\ EntryPassphrase(keyring[1]) # config_file[1].key.pw) =>
        /\ load_credentials(Vault).exc = DecryptionFailed
        /\ load_credentials(Vault).ret = None
        /\ last.op = "load" => (last.exc = DecryptionFailed /\ last.ret = None)

\* load() has run on an untouched config.enc right after the keyring entry
\* was replaced by a key of another passphrase
C3_Witness ==
    /\ last.op = "load"
    /\ last.exc = DecryptionFailed
    /\ keyring # None
    /\ config_file # None
    /\ config_file[1].text = "written"
    /\ EntryPassphrase(keyring[1]) # config_file[1].key.pw
    /\ salt_file = Some(config_file[1].key.salt)

(***************************************************************************)
(* A changed byte.  The keyring entry is the key config.enc was written    *)
(* under, and config.enc is not as store wrote it; Unchanged is the vault  *)
(* with config.enc as it was before the byte was changed.                  *)
(***************************************************************************)
ByteChangedOnly ==
    /\ keyring # None
    /\ config_file # None
    /\ config_file[1].text # "written"
    /\ urlsafe_b64decode(encode(keyring[1])) = config_file[1].key

Unchanged(st) ==
    [st EXCEPT !.config_file = Some([st.config_file[1] EXCEPT !.text = "written"])]

\* C4 as claimed: after any one byte of config.enc is changed, the key being
\* the same, load() raises InvalidToken (DecryptionFailed) and returns nothing.
C4_EveryByteChangeFails ==
    (ByteChangedOnly /\ last.op = "load") =>
        (last.exc = DecryptionFailed /\ last.ret = None)

\* C4, amended: after one byte of config.enc is changed, the key being the
\* same, load() either raises InvalidToken (DecryptionFailed), and no other
\* exception, or returns exactly what it returned before the change; it
\* returns only when the change left the decoded token the same.
C4_ByteChangeFailsOrSame ==
    ByteChangedOnly =>
        LET l == load_credentials(Vault)
            was == load_credentials(Unchanged(Vault))
        IN  /\ was.exc = NoExc
            /\ IF DecodesAsWritten(config_file[1])
               THEN l.exc = NoExc /\ l.ret = was.ret
               ELSE l.exc = DecryptionFailed /\ l.ret = None
            /\ last.op = "load" => (last.exc = l.exc /\ last.ret = l.ret)

\* load() has run on a config.enc one byte of which no longer is base64
C4_Witness ==
    /\ ByteChangedOnly
    /\ config_file[1].text = "invalid"
    /\ last.op = "load"
    /\ last.exc = DecryptionFailed
    /\ last.ret = None

\* C5: load() raises FileNotFoundError (VaultFileMissing) whenever config.enc
\* is absent, ValueError (KeyNotFound) when config.enc is there and the
\* keyring entry is not, InvalidToken (DecryptionFailed) when both are there
\* and the token does not authenticate under the entry; the three differ,
\* and load() returns a dict only when the token authenticates.
Authenticates ==
    /\ keyring # None
    /\ config_file # None
    /\ DecryptOk(Fernet(encode(keyring[1])), config_file[1])

C5_LoadFailureClasses ==
    LET l == load_credentials(Vault)
    IN  /\ config_file = None => l.exc = VaultFileMissing
        /\ (config_file # None /\ keyring = None) => l.exc = KeyNotFound
        /\ (config_file # None /\ keyring # None /\ ~Authenticates) =>
              l.exc = DecryptionFailed
        /\ Cardinality({VaultFileMissing, KeyNotFound, DecryptionFailed, NoExc}) = 4
        /\ l.exc # NoExc => l.ret = None
        /\ (l.exc = NoExc \/ l.ret # None) => Authenticates
        /\ last.op = "load" => (last.exc = l.exc /\ last.ret = l.ret)

\* load() has run with config.enc there and the keyring entry gone
C5_Witness ==
    /\ last.op = "load"
    /\ last.exc = KeyNotFound
    /\ last.pre = "KeyMissing"
    /\ config_file # None
    /\ keyring = None

\* C6 as claimed: delete() called when config.enc, the salt file and the
\* keyring entry are all absent already (as on the second of two calls in a
\* row) completes without raising.
C6_DeleteOfNothingReturns ==
    (last.op = "delete" /\ last.pre = "Uninitialized") => last.exc = NoExc

\* C7: after delete() has run, from whatever state and whether it returned
\* or raised, config.enc, the salt file and the keyring entry are all absent
\* and a load() that follows raises FileNotFoundError or ValueError and
\* returns nothing.
AllAbsent(st) == st.keyring = None /\ st.salt_file = None /\ st.config_file = None

C7_DeleteLeavesNothing ==
    /\ LET d == delete_credentials(Vault)
           l == load_credentials(d.st)
       IN  /\ AllAbsent(d.st)
           /\ l.exc \in {VaultFileMissing, KeyNotFound}
           /\ l.ret = None
    /\ last.op = "delete" =>
          /\ AllAbsent(Vault)
          /\ load_credentials(Vault).exc \in {VaultFileMissing, KeyNotFound}
          /\ load_credentials(Vault).ret = None

\* delete() has run on a vault whose config.enc could not be decrypted
C7_Witness ==
    /\ last.op = "delete"
    /\ last.pre = "Undecryptable"
    /\ AllAbsent(Vault)

(***************************************************************************)
(* What was entered at the prompts, as a map: the four required answers    *)
(* under their names, and default_customer_id when it was not skipped.     *)
(***************************************************************************)
Entered(inp) ==
    [k \in {"organization_id", "client_id", "client_secret", "refresh_token"}
           \cup (IF inp.default_customer = "" THEN {} ELSE {"default_customer_id"})
     |-> CASE k = "organization_id" -> inp.fields[1]
           [] k = "client_id" -> inp.fields[2]
           [] k = "client_secret" -> inp.fields[3]
           [] k = "refresh_token" -> inp.fields[4]
           [] k = "default_customer_id" -> inp.default_customer]

\* C8: on a fresh installation (no config.enc, no salt file, no keyring
\* entry) get_zoho_credentials(), with a confirmed passphrase and the entered
\* CredentialSet C, initializes (the key derived from that passphrase and the
\* drawn salt) and stores, returns exactly C, and leaves a vault whose load()
\* returns C.
C8_BootstrapOnFresh ==
    /\ AllAbsent(Vault) =>
          \A inp \in Prompts, salt \in Salts :
              inp.password = inp.confirm =>
                  LET g == get_zoho_credentials(Vault, inp, salt)
                      l == load_credentials(g.st)
                  IN  /\ g.exc = NoExc
                      /\ g.ret # None
                      /\ AsMap(g.ret[1]) = Entered(inp)
                      /\ g.st.salt_file = Some(salt)
                      /\ g.st.keyring = Some(decode(generate_key(inp.password, salt).key))
                      /\ StateClass(g.st) = "Populated"
                      /\ l.exc = NoExc
                      /\ AsMap(l.ret[1]) = Entered(inp)
    /\ (last.op = "get_zoho_credentials" /\ last.pre = "Uninitialized"
          /\ last.ret # None) =>
          /\ last.exc = NoExc
          /\ AsMap(last.ret[1]) = AsMap(last.arg)
          /\ StateClass(Vault) = "Populated"
          /\ load_credentials(Vault).ret # None
          /\ AsMap(load_credentials(Vault).ret[1]) = AsMap(last.arg)

\* get_zoho_credentials() has bootstrapped a vault with all five fields
C8_Witness ==
    /\ last.op = "get_zoho_credentials"
    /\ last.pre = "Uninitialized"
    /\ last.exc = NoExc
    /\ last.ret # None
    /\ Len(last.ret[1]) = Len(RequiredFields) + 1
    /\ Get(last.ret[1], "organization_id") # Get(last.ret[1], "client_id")
    /\ StateClass(Vault) = "Populated"

\* C9: whenever load() fails with anything but FileNotFoundError (ValueError
\* with config.enc there, InvalidToken), get_zoho_credentials() raises the
\* same, returns nothing, asks nothing, and leaves the keyring entry, the
\* salt file and config.enc as they were.
C9_BootstrapNeverMasks ==
    LET l == load_credentials(Vault)
    IN  /\ l.exc \notin {NoExc, VaultFileMissing} =>
              \A inp \in Prompts, salt \in Salts :
                  LET g == get_zoho_credentials(Vault, inp, salt)
                  IN  /\ g.exc = l.exc
                      /\ g.exc \in {KeyNotFound, DecryptionFailed}
                      /\ g.ret = None
                      /\ g.st = Vault
        /\ (last.op = "get_zoho_credentials"
              /\ last.pre \in {"KeyMissing", "Undecryptable"}) =>
              /\ last.exc = l.exc
              /\ last.exc \in {KeyNotFound, DecryptionFailed}
              /\ last.ret = None
              /\ StateClass(Vault) = last.pre

\* get_zoho_credentials() has run on a config.enc it could not decrypt
C9_Witness ==
    /\ last.op = "get_zoho_credentials"
    /\ last.pre = "Undecryptable"
    /\ last.exc = DecryptionFailed
    /\ config_file # None
    /\ keyring # None

\* C10: with no keyring entry and no config.enc, store(C) and update(D) raise
\* ValueError (KeyNotFound) and leave the vault as it was: no config.enc.
C10_NoKeyNoStore ==
    /\ (keyring = None /\ config_file = None) =>
          \A C \in ArgDicts :
              /\ store_credentials(Vault, C).exc = KeyNotFound
              /\ store_credentials(Vault, C).st = Vault
              /\ update_credentials(Vault, C).exc = KeyNotFound
              /\ update_credentials(Vault, C).st = Vault
    /\ (last.op \in {"store", "update"} /\ last.pre = "Uninitialized") =>
          /\ last.exc = KeyNotFound
          /\ keyring = None
          /\ config_file = None

\* update(D) has run on a vault that was never initialized
C10_Witness ==
    /\ last.op = "update"
    /\ last.pre = "Uninitialized"
    /\ last.exc = KeyNotFound
    /\ AllAbsent(Vault)
    /\ ~config_dir

\* C11: with a keyring entry and no config.enc (Initialized), update(D)
\* returns, leaves what one store(D) leaves (the token of D under the entry's
\* key), and the vault is Populated with load() returning exactly D.
C11_UpdateFirstStore ==
    /\ (keyring # None /\ config_file = None) =>
          \A D \in ArgDicts :
              LET u == update_credentials(Vault, D)
                  l == load_credentials(u.st)
              IN  /\ u.exc = NoExc
                  /\ u.st = store_credentials(Vault, D).st
                  /\ u.st.config_file =
                        Some(encrypt(Fernet(encode(keyring[1])), json_dumps(D)))
                  /\ StateClass(u.st) = "Populated"
                  /\ l.exc = NoExc
                  /\ l.ret = Some(D)
    /\ (last.op = "update" /\ last.pre = "Initialized") =>
          /\ last.exc = NoExc
          /\ StateClass(Vault) = "Populated"
          /\ config_file =
                Some(encrypt(Fernet(encode(keyring[1])), json_dumps(last.arg)))
          /\ load_credentials(Vault).ret = Some(last.arg)

\* update(D) with both fields has run on a vault that had a key and no blob
C11_Witness ==
    /\ last.op = "update"
    /\ last.pre = "Initialized"
    /\ last.exc = NoExc
    /\ Len(last.arg) = 2
    /\ StateClass(Vault) = "Populated"

\* C12: with config.enc there and load() raising ValueError (KeyNotFound) or
\* InvalidToken (DecryptionFailed), update(D) raises the same, stores
\* nothing and leaves config.enc, and the rest of the vault, as it was.
C12_UpdateFailsHard ==
    LET l == load_credentials(Vault)
    IN  /\ (config_file # None /\ l.exc # NoExc) =>
              /\ l.exc \in {KeyNotFound, DecryptionFailed}
              /\ \A D \in ArgDicts :
                    LET u == update_credentials(Vault, D)
                    IN  /\ u.exc = l.exc
                        /\ u.ret = None
                        /\ u.st.config_file = config_file
                        /\ u.st = Vault
        /\ (last.op = "update" /\ last.pre \in {"KeyMissing", "Undecryptable"}) =>
              /\ last.exc = l.exc
              /\ last.exc \in {KeyNotFound, DecryptionFailed}
              /\ config_file # None
              /\ StateClass(Vault) = last.pre

\* update(D) has run on a config.enc whose key was gone from the keyring
C12_Witness ==
    /\ last.op = "update"
    /\ last.pre = "KeyMissing"
    /\ last.exc = KeyNotFound
    /\ config_file # None
    /\ keyring = None

(***************************************************************************)
(* Initialize has run since config.enc was written: the salt file is not   *)
(* the salt of the key config.enc was written under.  A fresh salt is      *)
(* never that of a file still there, and a store writes under the entry    *)
(* that went in with the salt file.                                        *)
(***************************************************************************)
Rotated(st) ==
    /\ st.config_file # None
    /\ st.salt_file # None
    /\ st.config_file[1].key.salt # st.salt_file[1]

C14_SaltImmutable ==
    [][(salt_file # None /\ salt_file' # None) => salt_file' = salt_file]_vars

(***************************************************************************)
(* What a file holds.  config.enc holds a Fernet token: what encrypt gives *)
(* for the JSON text of a dict under a derived key, as written or with one *)
(* byte changed from outside.  The salt file holds a salt.  The keyring    *)
(* entry is the text of a derived key.                                     *)
(***************************************************************************)
DerivedKeys == {kdf_derive(P, S) : P \in Passphrases, S \in Salts}

IsToken(c) ==
    /\ c.text \in {"written", "altered", "invalid", "slack"}
    /\ c.key \in DerivedKeys
    /\ c.pt = json_dumps(json_loads(c.pt))
    /\ [c EXCEPT !.text = "written"] = encrypt([raw |-> c.key], c.pt)

\* C15: in every reachable state, after a call that raised too, config.enc,
\* when there, holds a Fernet token of the JSON text of a dict under a
\* derived key (never the text itself); the salt file, when there, holds a
\* salt (not a passphrase, not a key); the derived key is in the keyring
\* only; and a store or update that raises writes nothing.
C15_NoSecretInClear ==
    /\ config_file # None => IsToken(config_file[1])
    /\ salt_file # None => salt_file[1] \in Salts
    /\ keyring # None =>
          keyring[1] \in {decode(b64encode(k)) : k \in DerivedKeys}
    /\ \A C \in ArgDicts :
          /\ store_credentials(Vault, C).exc # NoExc =>
                store_credentials(Vault, C).st.config_file = config_file
          /\ update_credentials(Vault, C).exc # NoExc =>
                update_credentials(Vault, C).st.config_file = config_file

\* store(C) has raised for want of a key, with a config.enc there
C15_Witness ==
    /\ last.op = "store"
    /\ last.exc = KeyNotFound
    /\ last.pre = "KeyMissing"
    /\ config_file # None
    /\ IsToken(config_file[1])
    /\ salt_file # None

C18_MismatchChangesNothing ==
    /\ \A inp \in Prompts, salt \in Salts :
          inp.password # inp.confirm =>
              LET s == setup_credentials(Vault, inp, salt)
                  g == get_zoho_credentials(Vault, inp, salt)
              IN  /\ s.exc = NoExc
                  /\ s.ret = None
                  /\ s.st.salt_file = salt_file
                  /\ s.st.keyring = keyring
                  /\ s.st.config_file = config_file
                  /\ config_file = None =>
                        /\ g.exc = NoExc
                        /\ g.ret = None
                        /\ g.st.salt_file = salt_file
                        /\ g.st.keyring = keyring
                        /\ g.st.config_file = config_file
    /\ \A typed \in Passphrases \X Passphrases, salt \in Salts :
          typed[1] # typed[2] =>
              LET i == initialize_credentials(Vault, None, typed, salt)
              IN  /\ i.exc = ValueError
                  /\ i.st.salt_file = salt_file
                  /\ i.st.keyring = keyring
                  /\ i.st.config_file = config_file
    /\ (last.op \in {"setup", "get_zoho_credentials"} /\ last.exc = NoExc
          /\ last.ret = None) =>
          StateClass(Vault) = last.pre
    /\ (last.op = "initialize" /\ last.exc = ValueError) =>
          StateClass(Vault) = last.pre

\* setup_credentials has returned None on a vault that had a loadable blob
C18_Witness ==
    /\ last.op = "setup"
    /\ last.exc = NoExc
    /\ last.ret = None
    /\ last.pre = "Populated"
    /\ StateClass(Vault) = "Populated"

\* C19: with nothing touching the vault but initialize, store, load, update
\* and delete, each run to its end, config.enc is there only if the keyring
\* entry is, and the salt file is there exactly when the keyring entry is.
C19_PresenceInvariant ==
    /\ config_file # None => keyring # None
    /\ salt_file # None <=> keyring # None

\* delete() has raised on a vault that a delete had emptied before
C19_Witness ==
    /\ last.op = "delete"
    /\ last.exc = PasswordDeleteError
    /\ last.pre = "Uninitialized"
    /\ config_dir
    /\ AllAbsent(Vault)

\* C20: with nothing touching the vault but the methods, a keyring entry is
\* the text of the key derived from P and S, S what the salt file holds and
\* P the passphrase of the most recent initialize: initialize leaves such an
\* entry, and every other call that leaves an entry leaves it, and the salt
\* file, as they were.
C20_KeySaltAgreement ==
    [][keyring' # None =>
          /\ salt_file' # None
          /\ IF last'.op = "initialize" /\ last'.exc = NoExc
             THEN keyring' = Some(decode(generate_key(last'.arg, salt_file'[1]).key))
             ELSE keyring' = keyring /\ salt_file' = salt_file]_vars

\* a store has run after initialize was run again on a vault with a blob
C20_Witness ==
    /\ last.op = "store"
    /\ last.exc = NoExc
    /\ last.pre = "Undecryptable"
    /\ salt_file # None
    /\ keyring = Some(decode(generate_key(EntryPassphrase(keyring[1]),
                                            salt_file[1]).key))

\* C16 as claimed: when both processes have finished their store or update,
\* config.enc is the whole token of the process that wrote last, and nothing
\* else, and load() returns the dict that process wrote.
C16_LastWriterWins ==
    (last.op = "write" /\ \A p \in Procs : procs[p].pc = "idle") =>
        /\ config_file =
              Some(encrypt(Fernet(encode(keyring[1])), json_dumps(last.arg)))
        /\ load_credentials(Vault).exc = NoExc
        /\ load_credentials(Vault).ret = Some(last.arg)

\* C21: load(), whether it returns or raises, leaves config.enc, the salt
\* file and the keyring entry as they were; store and update, whether they
\* return or raise, leave the salt file and the keyring entry as they were.
\* Of the methods, only initialize and delete change those two.
C21_FrameLoadStoreUpdate ==
    /\ [](/\ load_credentials(Vault).st = Vault
          /\ \A C \in ArgDicts :
                /\ store_credentials(Vault, C).st.salt_file = salt_file
                /\ store_credentials(Vault, C).st.keyring = keyring
                /\ update_credentials(Vault, C).st.salt_file = salt_file
                /\ update_credentials(Vault, C).st.keyring = keyring)
    /\ [][/\ last'.op = "load" =>
                UNCHANGED <<keyring, salt_file, config_file, config_dir>>
          /\ last'.op \in {"store", "update"} =>
                UNCHANGED <<keyring, salt_file>>
          /\ (last'.op \in {"initialize", "store", "load", "update", "delete"}
                /\ (keyring' # keyring \/ salt_file' # salt_file)) =>
                IF keyring' = None /\ salt_file' = None
                THEN last'.op = "delete"
                ELSE last'.op = "initialize"]_vars

\* load() has raised InvalidToken on a blob changed from outside, and the
\* blob, the salt file and the key are all still there
C21_Witness ==
    /\ last.op = "load"
    /\ last.exc = InvalidToken
    /\ config_file # None
    /\ config_file[1].text = "altered"
    /\ salt_file # None
    /\ keyring # None
    /\ ~Rotated(Vault)

(***************************************************************************)
(* The flags given with a text that is not empty, and the dict they make.  *)
(***************************************************************************)
Supplied(args) ==
    {flag \in Range(UpdateFlags) : args[flag] # None /\ args[flag] # Some("")}

SuppliedMap(args) == [flag \in Supplied(args) |-> args[flag][1]]

\* C22: `config delete` calls delete_credentials exactly when the answer,
\* lowered, is "yes", once, and with any other answer makes no call and
\* leaves the vault as it was; `config update` calls update_credentials
\* once with exactly the flags given a text that is not empty, and with no
\* such flag makes no call and leaves the vault as it was.
C22_CliGuards ==
    /\ \A confirm \in Answers :
          LET r == main(Vault, "delete", NoArgs, confirm)
          IN  IF confirm \in {"yes", "YES", "Yes", "yeS"}
              THEN /\ r.ret = Some(<< <<"delete_credentials", <<>>>> >>)
                   /\ r.st = delete_credentials(Vault).st
              ELSE /\ r.ret = Some(<<>>)
                   /\ r.st = Vault
    /\ \A args \in CliArgs :
          LET r == main(Vault, "update", args, "")
          IN  IF Supplied(args) = {}
              THEN /\ r.ret = Some(<<>>)
                   /\ r.st = Vault
              ELSE /\ Len(r.ret[1]) = 1
                   /\ r.ret[1][1][1] = "update_credentials"
                   /\ AsMap(r.ret[1][1][2]) = SuppliedMap(args)
                   /\ r.st = update_credentials(Vault, r.ret[1][1][2]).st
    /\ (last.op \in {"config_delete", "config_update"} /\ last.ret = Some(<<>>)) =>
          StateClass(Vault) = last.pre
    /\ (last.op = "config_update" /\ last.ret # Some(<<>>)) =>
          \A k \in Keys(last.ret[1][1][2]) : Get(last.ret[1][1][2], k) # ""

\* `config delete` has been answered with something else than yes on a
\* vault with a loadable blob, and the blob is still loadable
C22_Witness ==
    /\ last.op = "config_delete"
    /\ last.ret = Some(<<>>)
    /\ last.pre = "Populated"
    /\ StateClass(Vault) = "Populated"
    /\ Len(load_credentials(Vault).ret[1]) >= 2

=============================================================================
